---- MODULE Spec2Model ----
(***************************************************************************)
(* A model of commitizen's history-ingestion layer (commitizen/git.py) and  *)
(* of the convention-plugin base class (commitizen/cz/base.py).             *)
(*                                                                          *)
(* Text is a sequence of one-character strings.  The process runner         *)
(* (commitizen.cmd.run) is the environment: the results it hands back are   *)
(* chosen in the initial state, one per command the operation will issue.   *)
(***************************************************************************)
EXTENDS Integers, Sequences, FiniteSets, TLC

VARIABLES
    proc,      \* the results cmd.run returns, in call order
    op,        \* the operation that has run ("idle" before any)
    args,      \* the arguments it was called with
    cmds,      \* the commands it handed to cmd.run, in order
    ret,       \* its outcome: [ok |-> TRUE, val |-> value] or [ok |-> FALSE, val |-> exception]
    pc,        \* commit(): position in the function body
    files,     \* commit(): the temporary files that exist, name -> content
    f,         \* commit(): the NamedTemporaryFile handle
    objA,      \* a value built by the caller (a history object or not)
    objB,      \* another one
    eq,        \* the result of objA == objB
    settings,  \* the shared Settings Object (config.settings)
    plugins,   \* how many plugins were constructed against it
    log        \* what each construction / style read did, in order

vars == <<proc, op, args, cmds, ret, pc, files, f, objA, objB, eq, settings, plugins, log>>

readerVars == <<proc, op, args, cmds, ret>>
commitVars == <<pc, files, f>>
objectVars == <<objA, objB, eq>>
pluginVars == <<settings, plugins, log>>

(***************************************************************************)
(* Bounds                                                                   *)
(***************************************************************************)
MaxLen == 6          \* longest command output of the history reader
MaxName == 2         \* longest tag name asked of tag_exist
MaxRaw == 2          \* longest raw field given to a record constructor
MaxPlugins == 3      \* constructions against one Settings Object
MaxStyle == 2        \* longest caller-supplied style table
MaxDiff == 1         \* longest output of a diff-name listing
MaxMsg == 1          \* longest commit message

(***************************************************************************)
(* Text                                                                     *)
(***************************************************************************)
NL == "\n"
Whitespace == {" ", NL}

\* All texts over alphabet `alpha` of length at most n.
RECURSIVE Texts(_, _)
Texts(alpha, n) ==
    IF n = 0 THEN {<<>>}
    ELSE LET shorter == Texts(alpha, n - 1)
         IN  shorter \cup {Append(t, c) : t \in shorter, c \in alpha}

RECURSIVE lstrip(_)
lstrip(s) ==
    IF s /= <<>> /\ Head(s) \in Whitespace THEN lstrip(Tail(s)) ELSE s

RECURSIVE rstrip(_)
rstrip(s) ==
    IF s /= <<>> /\ s[Len(s)] \in Whitespace
    THEN rstrip(SubSeq(s, 1, Len(s) - 1))
    ELSE s

\* str.strip()
strip(s) == rstrip(lstrip(s))

startswith(s, prefix) ==
    /\ Len(prefix) <= Len(s)
    /\ SubSeq(s, 1, Len(prefix)) = prefix

\* str.split(sep) for a non-empty sep: a left-to-right scan, never overlapping.
RECURSIVE splitFrom(_, _, _)
splitFrom(s, sep, cur) ==
    IF s = <<>> THEN <<cur>>
    ELSE IF startswith(s, sep)
         THEN <<cur>> \o splitFrom(SubSeq(s, Len(sep) + 1, Len(s)), sep, <<>>)
         ELSE splitFrom(Tail(s), sep, Append(cur, Head(s)))

split(s, sep) == splitFrom(s, sep, <<>>)

\* sep.join(parts)
RECURSIVE join(_, _)
join(sep, parts) ==
    IF parts = <<>> THEN <<>>
    ELSE IF Len(parts) = 1 THEN parts[1]
         ELSE parts[1] \o sep \o join(sep, Tail(parts))

\* `sub in s` for two texts: s holds sub as a contiguous run.
RECURSIVE contains(_, _)
contains(s, sub) ==
    IF startswith(s, sub) THEN TRUE
    ELSE IF s = <<>> THEN FALSE
         ELSE contains(Tail(s), sub)

\* bool(x) of a text
truthy(s) == s /= <<>>

(***************************************************************************)
(* Outcomes                                                                 *)
(***************************************************************************)
Return(v) == [ok |-> TRUE, val |-> v]
Raise(e) == [ok |-> FALSE, val |-> e]

(***************************************************************************)
(* History record types                                                     *)
(***************************************************************************)
GitCommit(rev, title, body) ==
    [type |-> "GitCommit", rev |-> strip(rev), title |-> strip(title),
     body |-> strip(body), name |-> <<>>, date |-> <<>>]

GitTag(name, rev, date) ==
    [type |-> "GitTag", rev |-> strip(rev), title |-> <<>>, body |-> <<>>,
     name |-> strip(name), date |-> strip(date)]

\* A value that is no GitObject (a string, None, a number ...).
Other(v) ==
    [type |-> "other", rev |-> v, title |-> <<>>, body |-> <<>>,
     name |-> <<>>, date |-> <<>>]

isGitObject(x) == x.type \in {"GitCommit", "GitTag"}

\* GitObject.__eq__ with the wrong test: equal only within one concrete type.
GitObject_eq_same_type(self, other) ==
    IF self.type /= other.type THEN FALSE ELSE self.rev = other.rev

\* GitObject.__eq__(self, other)
GitObject_eq(self, other) ==
    IF ~isGitObject(other) THEN FALSE ELSE self.rev = other.rev

(***************************************************************************)
(* The process runner's results                                             *)
(***************************************************************************)
Alphabet == {"a", "b", " ", NL, ";"}
ErrTexts == {<<>>, <<"e">>}

\* What cmd.run can hand back: captured output, error text, exit status.
Results(outs) ==
    {[out |-> o, err |-> e, code |-> IF e = <<>> THEN 0 ELSE 1] :
        o \in outs, e \in ErrTexts}

None == "<None>"
Omitted == "<omitted>"

\* `if start:` on an Optional[str]
given(x) == x /= None /\ x /= ""

(***************************************************************************)
(* get_commits                                                              *)
(***************************************************************************)
default_end == "HEAD"
default_log_format == "%H%n%s%n%b"
default_dateformat == "%Y-%m-%d"

\* The revision argument with the test on start dropped: always the ranged form.
log_revision_always_ranged(start, end) == <<start, "..", end>>

\* The revision argument of the log command: "{start}..{end}" or "{end}".
log_revision(start, end) ==
    IF given(start) THEN <<start, "..", end>> ELSE <<end>>

log_command(start, end, log_format, delimiter) ==
    [template |-> "git log --pretty={log_format}{delimiter} {revision}",
     log_format |-> log_format,
     delimiter |-> delimiter,
     revision |-> log_revision(start, end)]

\* The loop over the chunks of the output; `acc` is git_commits so far.
RECURSIVE commits_of_chunks(_, _)
commits_of_chunks(chunks, acc) ==
    IF chunks = <<>> THEN Return(acc)
    ELSE LET rev_and_commit == strip(Head(chunks))
             lines == split(rev_and_commit, <<NL>>)
         IN  IF ~truthy(rev_and_commit)
             THEN commits_of_chunks(Tail(chunks), acc)
             ELSE IF Len(lines) < 2
                  \* rev, title, *body_list = ... : not enough values to unpack
                  THEN Raise("ValueError")
                  ELSE commits_of_chunks(
                           Tail(chunks),
                           Append(acc, GitCommit(strip(lines[1]), strip(lines[2]),
                                      strip(join(<<NL>>, SubSeq(lines, 3, Len(lines)))))))

\* What get_commits makes of the result c of its log command.
get_commits(c, delimiter) ==
    IF ~truthy(c.out) THEN Return(<<>>)
    ELSE commits_of_chunks(split(c.out, delimiter), <<>>)

(***************************************************************************)
(* get_tags                                                                 *)
(***************************************************************************)
\* "---inner_delimiter---", as the one-symbol text of the output alphabet.
inner_delimiter == <<";">>

tags_command(dateformat) ==
    [template |-> "git tag --format='%(refname:lstrip=2){inner_delimiter}%(objectname){inner_delimiter}%(committerdate:format:{dateformat})' --sort=-committerdate",
     dateformat |-> dateformat]

\* The list comprehension over the lines; `acc` is the list so far.
RECURSIVE tags_of_lines(_, _)
tags_of_lines(lines, acc) ==
    IF lines = <<>> THEN Return(acc)
    ELSE LET fields == split(Head(lines), inner_delimiter)
         IN  IF Len(fields) /= 3
             \* GitTag(*fields): missing or unexpected positional arguments
             THEN Raise("TypeError")
             ELSE tags_of_lines(Tail(lines),
                                Append(acc, GitTag(fields[1], fields[2], fields[3])))

\* c.out.split("\n")[:-1]
all_but_last(xs) == SubSeq(xs, 1, Len(xs) - 1)

get_tags(c) ==
    IF truthy(c.err) \/ ~truthy(c.out) THEN Return(<<>>)
    ELSE tags_of_lines(all_but_last(split(c.out, <<NL>>)), <<>>)

(***************************************************************************)
(* tag_exist                                                                *)
(***************************************************************************)
exist_command(tag) == [template |-> "git tag --list {tag}", tag |-> tag]

\* tag_exist with a whole-line test in place of `in`.
tag_exist_whole_line(tag, c) ==
    Return(\E i \in 1..Len(split(c.out, <<NL>>)) : split(c.out, <<NL>>)[i] = tag)

tag_exist(tag, c) == Return(contains(c.out, tag))

(***************************************************************************)
(* The history reader as a state machine: one call per behaviour            *)
(***************************************************************************)
IdleReader ==
    /\ op = "idle"
    /\ args = <<>>
    /\ cmds = <<>>
    /\ ret = Return(<<>>)

\* No file under a name, and no file handle.
NoFile == [exists |-> FALSE, content |-> <<>>]
NoHandle == [name |-> None, buffer |-> <<>>, closed |-> TRUE]

IdleCommit ==
    /\ pc = "idle"
    /\ files = <<>>
    /\ f = NoHandle

IdleObjects ==
    /\ objA = Other(<<>>)
    /\ objB = Other(<<>>)
    /\ eq = FALSE

IdlePlugin ==
    /\ settings = <<>>
    /\ plugins = 0
    /\ log = <<>>

Starts == {None, "", "v1.0.0"}
Ends == {Omitted, "HEAD", "v2.0.0"}
Delimiters == {<<";">>, <<";", ";">>}
Dateformats == {default_dateformat, "%d.%m.%Y"}
TagNames == Texts({"a", "b"}, MaxName) \ {<<>>}

Init ==
    /\ proc \in {<<r>> : r \in Results(Texts(Alphabet, MaxLen))}
    /\ IdleReader
    /\ IdleCommit
    /\ IdleObjects
    /\ IdlePlugin

CallGetCommits ==
    /\ op = "idle"
    /\ \E start \in Starts, end \in Ends, delimiter \in Delimiters :
          LET e == IF end = Omitted THEN default_end ELSE end
          IN  /\ args' = [start |-> start, end |-> end, delimiter |-> delimiter]
              /\ cmds' = <<log_command(start, e, default_log_format, delimiter)>>
              /\ ret' = get_commits(proc[1], delimiter)
    /\ op' = "get_commits"
    /\ UNCHANGED <<proc, commitVars, objectVars, pluginVars>>

CallGetTags ==
    /\ op = "idle"
    /\ \E dateformat \in Dateformats :
          /\ args' = [dateformat |-> dateformat]
          /\ cmds' = <<tags_command(dateformat)>>
          /\ ret' = get_tags(proc[1])
    /\ op' = "get_tags"
    /\ UNCHANGED <<proc, commitVars, objectVars, pluginVars>>

CallTagExist ==
    /\ op = "idle"
    /\ \E tag \in TagNames :
          /\ args' = [tag |-> tag]
          /\ cmds' = <<exist_command(tag)>>
          /\ ret' = tag_exist(tag, proc[1])
    /\ op' = "tag_exist"
    /\ UNCHANGED <<proc, commitVars, objectVars, pluginVars>>

Next == CallGetCommits \/ CallGetTags \/ CallTagExist

Spec == Init /\ [][Next]_vars

(***************************************************************************)
(* Claims about the history reader (specification Spec)                     *)
(***************************************************************************)
\* The chunks of a log output that are non-empty after trimming, trimmed, in order.
NonEmptyChunks(out, delimiter) ==
    LET chunks == split(out, delimiter)
    IN  SelectSeq([i \in 1..Len(chunks) |-> strip(chunks[i])], truthy)

\* The record the reader is to make of a trimmed chunk with at least two lines.
CommitOfChunk(chunk) ==
    LET lines == split(chunk, <<NL>>)
    IN  [type |-> "GitCommit", rev |-> strip(lines[1]), title |-> strip(lines[2]),
         body |-> strip(join(<<NL>>, SubSeq(lines, 3, Len(lines)))),
         name |-> <<>>, date |-> <<>>]

WellFormedChunk(chunk) == Len(split(chunk, <<NL>>)) >= 2

\* The lines of a tag listing that stand before its last newline.
TagLines(out) == all_but_last(split(out, <<NL>>))

WellFormedLine(line) == Len(split(line, inner_delimiter)) = 3

TagOfLine(line) ==
    LET fields == split(line, inner_delimiter)
    IN  [type |-> "GitTag", rev |-> strip(fields[2]), title |-> <<>>, body |-> <<>>,
         name |-> strip(fields[1]), date |-> strip(fields[3])]

\* C1: for every log output and outer delimiter, get_commits returns one Commit
\* Record per chunk that is non-empty after trimming, in output order, with rev,
\* title and body the chunk's (trimmed) first line, second line and remaining
\* lines; on empty output it returns the empty sequence.
C1_OneCommitPerChunk ==
    op = "get_commits" =>
        LET chunks == NonEmptyChunks(proc[1].out, args.delimiter)
        IN  /\ ret.ok
            /\ Len(ret.val) = Len(chunks)
            /\ \A i \in 1..Len(chunks) :
                  /\ WellFormedChunk(chunks[i])
                  /\ ret.val[i] = CommitOfChunk(chunks[i])

\* C2: history reading is lenient: get_commits and get_tags never fail; a chunk
\* or line without the expected number of fields is skipped and the well-formed
\* ones are still returned as records.
C2_LenientReading ==
    /\ op = "get_commits" =>
          LET good == SelectSeq(NonEmptyChunks(proc[1].out, args.delimiter),
                                WellFormedChunk)
          IN  ret = Return([i \in 1..Len(good) |-> CommitOfChunk(good[i])])
    /\ op = "get_tags" =>
          LET good == SelectSeq(TagLines(proc[1].out), WellFormedLine)
          IN  IF truthy(proc[1].err) \/ ~truthy(proc[1].out)
              THEN ret = Return(<<>>)
              ELSE ret = Return([i \in 1..Len(good) |-> TagOfLine(good[i])])

\* C3: get_tags returns the empty sequence when the error text is non-empty or
\* the output is empty; otherwise one Tag Record per line of the output, in the
\* output's order, with name, revision and date the line's three trimmed fields,
\* the empty line after the last newline giving no record.
C3_OneTagPerLine ==
    op = "get_tags" =>
        LET lines == TagLines(proc[1].out)
        IN  IF truthy(proc[1].err) \/ ~truthy(proc[1].out)
            THEN ret = Return(<<>>)
            ELSE /\ ret.ok
                 /\ Len(ret.val) = Len(lines)
                 /\ \A i \in 1..Len(lines) :
                       /\ WellFormedLine(lines[i])
                       /\ ret.val[i] = TagOfLine(lines[i])

\* The listed entries of a tag listing: its non-empty lines.
ListedEntries(out) ==
    LET lines == split(out, <<NL>>)
    IN  {lines[i] : i \in {j \in 1..Len(lines) : lines[j] /= <<>>}}

\* s holds sub at some offset.
OccursIn(sub, s) ==
    \E i \in 0..(Len(s) - Len(sub)) : SubSeq(s, i + 1, i + Len(sub)) = sub

\* C4 (as claimed): tag_exist(name) is true iff name is one of the listed
\* entries (a whole line) of the tag listing.
C4_TagExistIffListedEntry ==
    op = "tag_exist" =>
        ret = Return(args.tag \in ListedEntries(proc[1].out))

\* C4 (amended): tag_exist(name) is true iff name occurs somewhere in the text
\* of the tag listing, as a whole line or as part of one.
C4_TagExistIffSubstring ==
    op = "tag_exist" =>
        ret = Return(OccursIn(args.tag, proc[1].out))

\* C4 witness: tag_exist answered true for a name that is only part of an entry.
C4_Witness ==
    /\ op = "tag_exist"
    /\ ret = Return(TRUE)
    /\ args.tag /= <<>>
    /\ args.tag \notin ListedEntries(proc[1].out)

\* C8: get_commits issues exactly one log command; its revision argument is
\* "{start}..{end}" when a (non-empty) start is given and "{end}" alone when
\* none is, with end defaulting to HEAD.
C8_LogCommandShape ==
    op = "get_commits" =>
        LET end == IF args.end = Omitted THEN "HEAD" ELSE args.end
        IN  /\ Len(cmds) = 1
            /\ cmds[1].template = "git log --pretty={log_format}{delimiter} {revision}"
            /\ cmds[1].delimiter = args.delimiter
            /\ args.start \in {None, ""} => cmds[1].revision = <<end>>
            /\ args.start \notin {None, ""} =>
                  cmds[1].revision = <<args.start, "..", end>>

\* C8 witness: a call with start v1.0.0 and no end issued the range v1.0.0..HEAD.
C8_Witness ==
    /\ op = "get_commits"
    /\ args.start = "v1.0.0"
    /\ args.end = Omitted
    /\ cmds = <<log_command("v1.0.0", "HEAD", default_log_format, args.delimiter)>>
    /\ cmds[1].revision = <<"v1.0.0", "..", "HEAD">>

(***************************************************************************)
(* is_staging_clean (specification SpecStaging)                             *)
(***************************************************************************)
unstaged_command == [template |-> "git diff --no-ext-diff --name-only"]
staged_command == [template |-> "git diff --no-ext-diff --cached --name-only"]

\* is_staging_clean that also takes a reported error for a dirty tree.
is_staging_clean_err(c, c_cached) ==
    Return(~(truthy(c.out) \/ truthy(c_cached.out) \/ truthy(c.err)
             \/ truthy(c_cached.err)))

is_staging_clean(c, c_cached) ==
    Return(~(truthy(c.out) \/ truthy(c_cached.out)))

\* Every output, error text and exit status, in any combination.
DiffResults ==
    [out : Texts({"a", NL}, MaxDiff), err : ErrTexts, code : {0, 1}]

InitStaging ==
    /\ proc \in {<<r1, r2>> : r1 \in DiffResults, r2 \in DiffResults}
    /\ IdleReader
    /\ IdleCommit
    /\ IdleObjects
    /\ IdlePlugin

CallIsStagingClean ==
    /\ op = "idle"
    /\ args' = <<>>
    /\ cmds' = <<unstaged_command, staged_command>>
    /\ ret' = is_staging_clean(proc[1], proc[2])
    /\ op' = "is_staging_clean"
    /\ UNCHANGED <<proc, commitVars, objectVars, pluginVars>>

NextStaging == CallIsStagingClean

SpecStaging == InitStaging /\ [][NextStaging]_vars

\* C10: is_staging_clean runs the unstaged and the staged listing and returns
\* true iff the output of both is empty, whatever the error texts and exit
\* statuses are.
C10_CleanIffBothOutputsEmpty ==
    op = "is_staging_clean" =>
        /\ cmds = <<unstaged_command, staged_command>>
        /\ ret = Return(proc[1].out = <<>> /\ proc[2].out = <<>>)

\* C10 witness: both listings reported an error and printed nothing: clean.
C10_Witness ==
    /\ op = "is_staging_clean"
    /\ proc[1].err /= <<>> /\ proc[1].code = 1
    /\ proc[2].err /= <<>> /\ proc[2].code = 1
    /\ ret = Return(TRUE)

(***************************************************************************)
(* commit (specification SpecCommit): the function body line by line        *)
(***************************************************************************)
TmpNames == {"tmp0", "tmp1"}
MsgAlphabet == {"m", NL, "é"}

\* One character's UTF-8 bytes.
utf8_char(ch) ==
    CASE ch = "m" -> <<109>>
      [] ch = NL -> <<10>>
      [] ch = "é" -> <<195, 169>>

\* str.encode("utf-8")
RECURSIVE encode_utf8(_)
encode_utf8(s) ==
    IF s = <<>> THEN <<>> ELSE utf8_char(Head(s)) \o encode_utf8(Tail(s))

commit_command(extra, name) ==
    [template |-> "git commit {args} -F {f.name}", args |-> extra, file |-> name]

\* os.unlink that leaves the file behind.
os_unlink_noop(fs, name) == fs

\* os.unlink(name)
os_unlink(fs, name) == [fs EXCEPT ![name] = NoFile]

CommitResults == [out : {<<>>, <<"a">>}, err : ErrTexts, code : {0, 1}]

InitCommit ==
    /\ proc \in {<<r>> : r \in CommitResults}
    /\ IdleReader
    /\ pc = "idle"
    /\ f = NoHandle
    /\ files \in {[n \in TmpNames |-> NoFile],
                  [n \in TmpNames |->
                      IF n = "tmp0" THEN [exists |-> TRUE, content |-> <<120>>]
                      ELSE NoFile]}
    /\ IdleObjects
    /\ IdlePlugin

\* f = NamedTemporaryFile("wb", delete=False)
CommitCreate ==
    /\ pc = "idle"
    /\ \E message \in Texts(MsgAlphabet, MaxMsg), extra \in {"", "--amend"} :
          args' = [message |-> message, args |-> extra]
    /\ \E n \in {m \in TmpNames : ~files[m].exists} :
          /\ files' = [files EXCEPT ![n] = [exists |-> TRUE, content |-> <<>>]]
          /\ f' = [name |-> n, buffer |-> <<>>, closed |-> FALSE]
    /\ pc' = "write"
    /\ UNCHANGED <<proc, op, cmds, ret, objectVars, pluginVars>>

\* f.write(message.encode("utf-8"))
CommitWrite ==
    /\ pc = "write"
    /\ f' = [f EXCEPT !.buffer = f.buffer \o encode_utf8(args.message)]
    /\ pc' = "close"
    /\ UNCHANGED <<proc, op, args, cmds, ret, files, objectVars, pluginVars>>

\* f.write(...) raising (the disk is full): commit ends there, by the exception.
CommitWriteFails ==
    /\ pc = "write"
    /\ ret' = Raise("OSError")
    /\ pc' = "raised"
    /\ UNCHANGED <<proc, op, args, cmds, files, f, objectVars, pluginVars>>

\* f.close(): the buffered bytes reach the file.
CommitClose ==
    /\ pc = "close"
    /\ files' = [files EXCEPT ![f.name].content = @ \o f.buffer]
    /\ f' = [f EXCEPT !.buffer = <<>>, !.closed = TRUE]
    /\ pc' = "run"
    /\ UNCHANGED <<proc, op, args, cmds, ret, objectVars, pluginVars>>

\* c = cmd.run(f"git commit {args} -F {f.name}"); `found` is what the command
\* finds under the name it is given.
CommitRun ==
    /\ pc = "run"
    /\ cmds' = Append(cmds, [command |-> commit_command(args.args, f.name),
                             found |-> files[f.name]])
    /\ pc' = "unlink"
    /\ UNCHANGED <<proc, op, args, ret, files, f, objectVars, pluginVars>>

\* os.unlink(f.name)
CommitUnlink ==
    /\ pc = "unlink"
    /\ files' = os_unlink(files, f.name)
    /\ pc' = "return"
    /\ UNCHANGED <<proc, op, args, cmds, ret, f, objectVars, pluginVars>>

\* return c
CommitReturn ==
    /\ pc = "return"
    /\ ret' = Return(proc[1])
    /\ op' = "commit"
    /\ pc' = "done"
    /\ UNCHANGED <<proc, args, cmds, files, f, objectVars, pluginVars>>

NextCommit ==
    \/ CommitCreate
    \/ CommitWrite
    \/ CommitWriteFails
    \/ CommitClose
    \/ CommitRun
    \/ CommitUnlink
    \/ CommitReturn

SpecCommit == InitCommit /\ [][NextCommit]_vars

\* C9: commit creates the temporary file, writes the message, runs the commit
\* command on that file and then deletes it: the file exists and holds the
\* message while the command runs; once commit has returned the file is gone,
\* whether the command succeeded or failed, and the process result is returned
\* as it came.
C9_TempFileLifetime ==
    /\ pc \in {"idle", "write", "close", "run"} => cmds = <<>>
    /\ pc \in {"write", "close", "run", "unlink"} => files[f.name].exists
    /\ pc \in {"unlink", "return", "done"} =>
          /\ Len(cmds) = 1
          /\ cmds[1].command = commit_command(args.args, f.name)
          /\ cmds[1].found = [exists |-> TRUE, content |-> encode_utf8(args.message)]
    /\ pc \in {"return", "done"} => ~files[f.name].exists
    /\ pc = "done" => ret = Return(proc[1])

\* C9 witness: commit returned the result of a failed command, which had found
\* a two-byte message in the file, and the file is gone.
C9_Witness ==
    /\ pc = "done"
    /\ proc[1].code = 1
    /\ proc[1].err /= <<>>
    /\ ret.val.code = 1
    /\ cmds[1].found.content = <<195, 169>>
    /\ ~files[f.name].exists

(***************************************************************************)
(* History objects and their equality (specification SpecObjects)           *)
(***************************************************************************)
RawTexts == Texts({"a", " "}, MaxRaw)
Titles == {<<>>, <<"t">>}

InitObjects ==
    /\ proc = <<>>
    /\ IdleReader
    /\ IdleCommit
    /\ IdleObjects
    /\ IdlePlugin

\* objA = GitCommit(rev, title) or GitTag(name, rev, date)
BuildA ==
    /\ \E rev \in RawTexts, t \in Titles :
          objA' \in {GitCommit(rev, t, <<>>), GitTag(t, rev, <<>>)}
    /\ op' = "built"
    /\ UNCHANGED <<proc, args, cmds, ret, objB, eq, commitVars, pluginVars>>

\* objB = GitCommit(...), GitTag(...) or a value of another type
BuildB ==
    /\ \E rev \in RawTexts, t \in Titles :
          objB' \in {GitCommit(rev, t, <<>>), GitTag(t, rev, <<>>), Other(rev)}
    /\ op' = "built"
    /\ UNCHANGED <<proc, args, cmds, ret, objA, eq, commitVars, pluginVars>>

\* objA == objB, with objA a history object
Compare ==
    /\ isGitObject(objA)
    /\ eq' = GitObject_eq(objA, objB)
    /\ op' = "eq"
    /\ UNCHANGED <<proc, args, cmds, ret, objA, objB, commitVars, pluginVars>>

NextObjects == BuildA \/ BuildB \/ Compare

SpecObjects == InitObjects /\ [][NextObjects]_vars

\* C5: two history objects, commits or tags in any combination, compare equal
\* iff their revision identities are equal; a history object never compares
\* equal to a value that is no history object.
C5_EqualIffSameRevision ==
    op = "eq" =>
        /\ (objB.type \in {"GitCommit", "GitTag"}) => (eq <=> objA.rev = objB.rev)
        /\ (objB.type \notin {"GitCommit", "GitTag"}) => ~eq

\* C5 witness: a commit and a tag built from differently padded texts of the
\* same revision compared equal.
C5_Witness ==
    /\ op = "eq"
    /\ objA.type = "GitCommit"
    /\ objB.type = "GitTag"
    /\ objA.rev = <<"a">>
    /\ objA.title /= objB.name
    /\ eq

(***************************************************************************)
(* The convention plugin and the shared Settings Object                     *)
(* (specification SpecPlugin)                                               *)
(***************************************************************************)
\* Python values held in the settings dict.
PyNone == [kind |-> "None", table |-> <<>>]
PyList(t) == [kind |-> "list", table |-> t]
PyStr == [kind |-> "str", table |-> <<>>]

\* bool(v) of such a value: None and the empty list are false.
py_truthy(v) == v.kind = "list" /\ v.table /= <<>>

\* dict.get(key): None when the key is missing.
dict_get(d, key) == IF key \in DOMAIN d THEN d[key] ELSE PyNone

\* dict.update({key: value})
dict_update(d, key, value) ==
    [k \in DOMAIN d \cup {key} |-> IF k = key THEN value ELSE d[k]]

default_style_config ==
    << <<"qmark", "fg:#ff9d00 bold">>,
       <<"question", "bold">>,
       <<"answer", "fg:#ff9d00 bold">>,
       <<"pointer", "fg:#ff9d00 bold">>,
       <<"highlighted", "fg:#ff9d00 bold">>,
       <<"selected", "fg:#cc5454">>,
       <<"separator", "fg:#cc5454">>,
       <<"instruction", "">>,
       <<"text", "">>,
       <<"disabled", "fg:#858585 italic">> >>

\* The test of __init__ as a test for a missing key only.
lacks_style_key_only(s) == "style" \notin DOMAIN s

\* `not self.config.settings.get("style")`
lacks_style(s) == ~py_truthy(dict_get(s, "style"))

\* BaseCommitizen.__init__: the Settings Object after the construction.
init_settings(s) ==
    IF lacks_style(s) THEN dict_update(s, "style", PyList(default_style_config))
    ELSE s

\* prompt_toolkit's Style(rules): the rule list.
Style(rules) == rules

\* prompt_toolkit's merge_styles: the styles' rules, earlier styles first.
RECURSIVE merge_styles(_)
merge_styles(styles) ==
    IF styles = <<>> THEN <<>> ELSE Head(styles) \o merge_styles(Tail(styles))

\* The roles a rule list names.
roles_of(rules) == {rules[i][1] : i \in 1..Len(rules)}

\* The style a rule list gives a role it names: that of the last rule for it.
role_style(rules, role) ==
    LET at == {i \in 1..Len(rules) : rules[i][1] = role}
        last == CHOOSE i \in at : \A j \in at : j <= i
    IN  rules[last][2]

\* The style property with the two tables merged the other way round.
style_defaults_last(s) ==
    Return(merge_styles(<<Style(s["style"].table), Style(default_style_config)>>))

\* BaseCommitizen.style
style(s) ==
    Return(merge_styles(<<Style(default_style_config), Style(s["style"].table)>>))

StyleRoles == {"qmark", "text", "brand"}
StyleValues == {"fg:#00ff00", ""}
StyleTables ==
    UNION {[1..n -> {<<r, v>> : r \in StyleRoles, v \in StyleValues}] : n \in 0..MaxStyle}

\* The Settings Object as the caller hands it over: without a "style" entry,
\* with "style" None, or with a style table (possibly empty).
CallerSettings ==
    {[k \in {"name"} |-> PyStr]}
    \cup {[k \in {"name", "style"} |-> IF k = "name" THEN PyStr ELSE v] :
             v \in {PyNone} \cup {PyList(t) : t \in StyleTables}}

InitPlugin ==
    /\ proc = <<>>
    /\ IdleReader
    /\ IdleCommit
    /\ IdleObjects
    /\ settings \in CallerSettings
    /\ plugins = 0
    /\ log = <<>>

\* BaseCommitizen(config): one more plugin built against the Settings Object.
Construct ==
    /\ plugins < MaxPlugins
    /\ settings' = init_settings(settings)
    /\ plugins' = plugins + 1
    /\ log' = Append(log, [before |-> settings, after |-> settings'])
    /\ op' = "init"
    /\ UNCHANGED <<proc, args, cmds, ret, commitVars, objectVars>>

\* plugin.style, read on a constructed plugin
ReadStyle ==
    /\ plugins > 0
    /\ ret' = style(settings)
    /\ op' = "style"
    /\ UNCHANGED <<proc, args, cmds, commitVars, objectVars, pluginVars>>

NextPlugin == Construct \/ ReadStyle

SpecPlugin == InitPlugin /\ [][NextPlugin]_vars

WithDefaultStyle(s) == dict_update(s, "style", PyList(default_style_config))

\* C6 (as claimed): a construction writes the default style table iff the
\* Settings Object has no "style" entry at that moment; an entry that is
\* present, whatever its value, is never overwritten.
C6_WritesIffNoStyleEntry ==
    [][plugins' = plugins + 1 =>
          IF "style" \in DOMAIN settings
          THEN settings' = settings
          ELSE settings' = WithDefaultStyle(settings)]_vars

\* C6 (amended): a construction writes the default style table iff the
\* "style" entry is missing or empty (None, an empty table) at that moment; a
\* non-empty "style" entry is never overwritten by a construction, so the
\* default table is written at most once per Settings Object.
C6_WritesIffStyleMissingOrEmpty ==
    [][plugins' = plugins + 1 =>
          /\ IF /\ "style" \in DOMAIN settings
                /\ settings["style"] /= PyNone
                /\ settings["style"] /= PyList(<<>>)
             THEN settings' = settings
             ELSE settings' = WithDefaultStyle(settings)
          /\ Cardinality({i \in 1..Len(log') : log'[i].before /= log'[i].after}) <= 1]_vars

\* C6 witness: the first construction replaced a "style" entry that was present
\* and empty by the default table, and the second one left the entry alone.
C6_Witness ==
    /\ plugins = 2
    /\ "style" \in DOMAIN log[1].before
    /\ log[1].before["style"] = PyList(<<>>)
    /\ log[1].after["style"] = PyList(default_style_config)
    /\ log[2].before = log[2].after
    /\ settings = log[1].after

\* C7: the style property gives each role named in the Settings Object's style
\* table the Settings Object's value and each built-in role not named there
\* its built-in default; reading it leaves the Settings Object as it was.
C7_StyleMergesOverDefaults ==
    [][op' = "style" =>
          /\ settings' = settings
          /\ ret'.ok
          /\ \A role \in roles_of(settings["style"].table) :
                role_style(ret'.val, role) = role_style(settings["style"].table, role)
          /\ \A role \in roles_of(default_style_config) \ roles_of(settings["style"].table) :
                role_style(ret'.val, role) = role_style(default_style_config, role)]_vars

\* C7 witness: with a table overriding qmark only, the style read has the
\* override for qmark and the built-in value for question.
C7_Witness ==
    /\ op = "style"
    /\ settings["style"] = PyList(<< <<"qmark", "fg:#00ff00">> >>)
    /\ role_style(ret.val, "qmark") = "fg:#00ff00"
    /\ role_style(ret.val, "question") = "bold"
    /\ role_style(ret.val, "disabled") = "fg:#858585 italic"

====
